---------------------------- MODULE Spec2Model ----------------------------
(***************************************************************************)
(* A model of csvcruncher.py: the row-processing functions filter_by,      *)
(* sort_by and aggregate, and the pipeline driver cli().                   *)
(*                                                                         *)
(* A Python str is a sequence of one-character strings, so that split,     *)
(* strip, re.match, float(), int() and the string order are computed here  *)
(* as Python computes them.  A float is an exact rational [num, den]: the  *)
(* cells of the model are short decimals that are multiples of 0.25, on    *)
(* which the sums, halves and quarters that mean, median and round take    *)
(* are exact in binary floating point as well.                             *)
(***************************************************************************)
EXTENDS Integers, Sequences, FiniteSets, TLC

VARIABLES
    file,    \* what csv_reader finds: [readable, rows]
    args,    \* the parsed command line: [where, order_by, aggregate, head]
    call,    \* a direct call of one function: [fn, data, condition, column, ops]
    pc,      \* position in cli(), or "call" / "returned" for a direct call
    data,    \* cli: what csv_reader returned: [none, rows]
    result,  \* cli: the local `result`
    ret,     \* direct call: what the function returned or raised
    locals,  \* direct call: the function's locals after parsing its spec
    stages,  \* cli: the stages that have run, in order
    out      \* cli: what was printed, in order

vars == <<file, args, call, pc, data, result, ret, locals, stages, out>>

---------------------------------------------------------------------------
(* Python str, as sequences of characters                                  *)

Digits == {"0", "1", "2", "3", "4", "5", "6", "7", "8", "9"}

DigitVal(c) ==
    CASE c = "0" -> 0 [] c = "1" -> 1 [] c = "2" -> 2 [] c = "3" -> 3
      [] c = "4" -> 4 [] c = "5" -> 5 [] c = "6" -> 6 [] c = "7" -> 7
      [] c = "8" -> 8 [] c = "9" -> 9

\* ord(c) for the characters the model uses
Ord(c) ==
    IF c \in Digits THEN 48 + DigitVal(c)
    ELSE CASE c = " " -> 32 [] c = "-" -> 45 [] c = "." -> 46
           [] c = "<" -> 60 [] c = "=" -> 61 [] c = ">" -> 62
           [] c = "A" -> 65 [] c = "C" -> 67 [] c = "S" -> 83
           [] c = "a" -> 97 [] c = "c" -> 99 [] c = "d" -> 100
           [] c = "e" -> 101 [] c = "g" -> 103 [] c = "i" -> 105
           [] c = "m" -> 109 [] c = "n" -> 110 [] c = "p" -> 112
           [] c = "q" -> 113 [] c = "s" -> 115 [] c = "u" -> 117
           [] c = "v" -> 118 [] c = "x" -> 120

\* `ch in s`
Contains(s, ch) == \E k \in 1..Len(s) : s[k] = ch

\* the number of occurrences of ch in s
Count(s, ch) == Cardinality({k \in 1..Len(s) : s[k] = ch})

\* s.split(ch): every occurrence of ch separates two parts
RECURSIVE Split(_, _)
Split(s, ch) ==
    IF ~Contains(s, ch) THEN <<s>>
    ELSE LET k == CHOOSE j \in 1..Len(s) :
                      s[j] = ch /\ \A h \in 1..(j - 1) : s[h] # ch
         IN  <<SubSeq(s, 1, k - 1)>> \o Split(SubSeq(s, k + 1, Len(s)), ch)

\* s.strip(): leading and trailing whitespace removed
RECURSIVE Strip(_)
Strip(s) ==
    IF s = <<>> THEN s
    ELSE IF s[1] = " " THEN Strip(Tail(s))
    ELSE IF s[Len(s)] = " " THEN Strip(SubSeq(s, 1, Len(s) - 1))
    ELSE s

\* a < b on str: lexicographic by code point
RECURSIVE StrLess(_, _)
StrLess(a, b) ==
    IF b = <<>> THEN FALSE
    ELSE IF a = <<>> THEN TRUE
    ELSE IF a[1] # b[1] THEN Ord(a[1]) < Ord(b[1])
    ELSE StrLess(Tail(a), Tail(b))

\* re.match(r"\d+\.*\d*", s): the pattern is tried at the start of s only and
\* is not anchored at the end, so it matches exactly when s starts with a digit
NumericLooking(s) == Len(s) > 0 /\ s[1] \in Digits

---------------------------------------------------------------------------
(* Python float, as exact rationals                                        *)

RECURSIVE Pow10(_)
Pow10(n) == IF n = 0 THEN 1 ELSE 10 * Pow10(n - 1)

\* the digits of s read as a decimal integer, skipping the point
RECURSIVE DigitsValue(_)
DigitsValue(s) ==
    IF s = <<>> THEN 0
    ELSE LET last == s[Len(s)]
             rest == DigitsValue(SubSeq(s, 1, Len(s) - 1))
         IN  IF last = "." THEN rest ELSE 10 * rest + DigitVal(last)

\* the digits after the point
Decimals(s) ==
    IF Contains(s, ".")
    THEN Len(s) - (CHOOSE k \in 1..Len(s) : s[k] = ".")
    ELSE 0

\* an unsigned decimal literal: digits with at most one point, at least one digit
IsDecimal(s) ==
    /\ \A k \in 1..Len(s) : s[k] \in Digits \cup {"."}
    /\ Count(s, ".") <= 1
    /\ \E k \in 1..Len(s) : s[k] \in Digits

\* float(s), for strings over the characters of Ord: surrounding whitespace is
\* stripped, one leading "-" is a sign, and the rest must be a whole decimal
\* literal; anything else raises ValueError (ok = FALSE)
float(s) ==
    LET t    == Strip(s)
        neg  == Len(t) > 0 /\ t[1] = "-"
        body == IF neg THEN Tail(t) ELSE t
    IN  IF IsDecimal(body)
        THEN [ok |-> TRUE,
              num |-> IF neg THEN 0 - DigitsValue(body) ELSE DigitsValue(body),
              den |-> Pow10(Decimals(body))]
        ELSE [ok |-> FALSE, num |-> 0, den |-> 1]

\* int(s): surrounding whitespace stripped, one leading "-", then digits only
int(s) ==
    LET t    == Strip(s)
        neg  == Len(t) > 0 /\ t[1] = "-"
        body == IF neg THEN Tail(t) ELSE t
    IN  IF Len(body) > 0 /\ \A k \in 1..Len(body) : body[k] \in Digits
        THEN [ok |-> TRUE,
              val |-> IF neg THEN 0 - DigitsValue(body) ELSE DigitsValue(body)]
        ELSE [ok |-> FALSE, val |-> 0]

\* comparisons of floats
NumLess(a, b) == a.num * b.den < b.num * a.den
NumEq(a, b) == a.num * b.den = b.num * a.den

---------------------------------------------------------------------------
(* Outcomes of a call: a returned value or a raised exception              *)

Return(v) == [exc |-> "none", val |-> v]
Raise(e) == [exc |-> e, val |-> <<>>]

\* the exception of the first element that raised one; "none" if none did
FirstExc(excs) ==
    IF \A k \in 1..Len(excs) : excs[k] = "none" THEN "none"
    ELSE excs[CHOOSE k \in 1..Len(excs) :
                  excs[k] # "none" /\ \A h \in 1..(k - 1) : excs[h] = "none"]

\* [x for x in s if keep[x]], keep given by position
RECURSIVE Comprehension(_, _)
Comprehension(s, keep) ==
    IF s = <<>> THEN <<>>
    ELSE LET n    == Len(s)
             init == Comprehension(SubSeq(s, 1, n - 1), SubSeq(keep, 1, n - 1))
         IN  IF keep[n] THEN Append(init, s[n]) ELSE init

---------------------------------------------------------------------------
(* filter_by                                                               *)

\* NumCompare with < and > taken as <= and >=
NumCompareInclusive(op, a, b) ==
    CASE op = "<" -> ~NumLess(b, a)
      [] op = ">" -> ~NumLess(a, b)
      [] op = "=" -> NumEq(a, b)

\* a OP b on floats: the three comparisons of lines 78, 84 and 90
NumCompare(op, a, b) ==
    CASE op = "<" -> NumLess(a, b)
      [] op = ">" -> NumLess(b, a)
      [] op = "=" -> NumEq(a, b)

\* a OP b on str: the three comparisons of lines 80, 86 and 92
StrCompare(op, a, b) ==
    CASE op = "<" -> StrLess(a, b)
      [] op = ">" -> StrLess(b, a)
      [] op = "=" -> a = b

\* NumericTest probing the cell as well: a cell that does not match the
\* numeric pattern is compared as a raw string
NumericTestBothSides(row, column, value, op) ==
    IF column \notin DOMAIN row THEN [exc |-> "KeyError", keep |-> FALSE]
    ELSE IF ~NumericLooking(row[column])
    THEN [exc |-> "none", keep |-> StrCompare(op, row[column], value)]
    ELSE IF ~float(row[column]).ok THEN [exc |-> "ValueError", keep |-> FALSE]
    ELSE IF ~float(value).ok THEN [exc |-> "ValueError", keep |-> FALSE]
    ELSE [exc |-> "none",
          keep |-> NumCompare(op, float(row[column]), float(value))]

\* float(row[column]) OP float(value) for one row: row[column] is looked up
\* first, then the cell is converted, then the operand
NumericTest(row, column, value, op) ==
    IF column \notin DOMAIN row THEN [exc |-> "KeyError", keep |-> FALSE]
    ELSE IF ~float(row[column]).ok THEN [exc |-> "ValueError", keep |-> FALSE]
    ELSE IF ~float(value).ok THEN [exc |-> "ValueError", keep |-> FALSE]
    ELSE [exc |-> "none",
          keep |-> NumCompare(op, float(row[column]), float(value))]

\* row[column] OP value for one row, on the raw strings
StringTest(row, column, value, op) ==
    IF column \notin DOMAIN row THEN [exc |-> "KeyError", keep |-> FALSE]
    ELSE [exc |-> "none", keep |-> StrCompare(op, row[column], value)]

\* one branch of filter_by: the split on the operator, the probe of the
\* operand, and the list comprehension over the rows
FilterBranch(data_, condition, op) ==
    LET parts == Split(condition, op)
    IN  IF Len(parts) # 2
        THEN \* column, value = ...: not exactly two parts to unpack
             [exc |-> "ValueError", val |-> <<>>, warned |-> FALSE,
              bound |-> FALSE, op |-> op, column |-> <<>>, value |-> <<>>]
        ELSE LET column == parts[1]
                 value  == parts[2]
                 tests  == [k \in 1..Len(data_) |->
                               IF NumericLooking(value)
                               THEN NumericTest(data_[k], column, value, op)
                               ELSE StringTest(data_[k], column, value, op)]
                 exc    == FirstExc([k \in 1..Len(data_) |-> tests[k].exc])
             IN  [exc |-> exc,
                  val |-> IF exc = "none"
                          THEN Comprehension(data_,
                                   [k \in 1..Len(data_) |-> tests[k].keep])
                          ELSE <<>>,
                  warned |-> FALSE, bound |-> TRUE, op |-> op,
                  column |-> column, value |-> value]

\* filter_by looking for ">" before "<"
filter_by_GtFirst(data_, condition) ==
    IF Contains(condition, ">") THEN FilterBranch(data_, condition, ">")
    ELSE IF Contains(condition, "<") THEN FilterBranch(data_, condition, "<")
    ELSE IF Contains(condition, "=") THEN FilterBranch(data_, condition, "=")
    ELSE [exc |-> "none", val |-> data_, warned |-> TRUE,
          bound |-> FALSE, op |-> "none", column |-> <<>>, value |-> <<>>]

\* filter_by(data, condition): the outcome, whether the warning was printed, and
\* the locals column and value (bound = they were assigned)
filter_by(data_, condition) ==
    IF Contains(condition, "<") THEN FilterBranch(data_, condition, "<")
    ELSE IF Contains(condition, ">") THEN FilterBranch(data_, condition, ">")
    ELSE IF Contains(condition, "=") THEN FilterBranch(data_, condition, "=")
    ELSE [exc |-> "none", val |-> data_, warned |-> TRUE,
          bound |-> FALSE, op |-> "none", column |-> <<>>, value |-> <<>>]

---------------------------------------------------------------------------
(* sort_by                                                                 *)

Reverse(s) == [k \in 1..Len(s) |-> s[Len(s) + 1 - k]]

\* the key lambda of lines 154-158 and 164-168 for one row: re.match on
\* row[column], then float(row[column]) or the raw string
SortKey(row, column) ==
    IF column \notin DOMAIN row
    THEN [exc |-> "KeyError", isnum |-> FALSE, num |-> float(<<>>), str |-> <<>>]
    ELSE IF ~NumericLooking(row[column])
    THEN [exc |-> "none", isnum |-> FALSE, num |-> float(<<>>),
          str |-> row[column]]
    ELSE IF ~float(row[column]).ok
    THEN [exc |-> "ValueError", isnum |-> TRUE, num |-> float(<<>>), str |-> <<>>]
    ELSE [exc |-> "none", isnum |-> TRUE, num |-> float(row[column]),
          str |-> <<>>]

\* a < b on two keys of the same type
KeyLess(a, b) ==
    IF a.isnum THEN NumLess(a.num, b.num) ELSE StrLess(a.str, b.str)

\* Insert placing x in front of the elements equal to it: not stable
RECURSIVE InsertBeforeEqual(_, _)
InsertBeforeEqual(x, s) ==
    IF s = <<>> THEN <<x>>
    ELSE IF ~KeyLess(s[1].key, x.key) THEN <<x>> \o s
    ELSE <<s[1]>> \o InsertBeforeEqual(x, Tail(s))

\* x placed into the sorted sequence s behind every element that is not
\* greater than it
RECURSIVE Insert(_, _)
Insert(x, s) ==
    IF s = <<>> THEN <<x>>
    ELSE IF KeyLess(x.key, s[1].key) THEN <<x>> \o s
    ELSE <<s[1]>> \o Insert(x, Tail(s))

\* list.sort without reverse: a stable sort that compares with < only
RECURSIVE StableSort(_)
StableSort(s) ==
    IF s = <<>> THEN <<>>
    ELSE Insert(s[Len(s)], StableSort(SubSeq(s, 1, Len(s) - 1)))

\* ReverseSort as an ascending sort followed by a reversal
ReverseOfSort(s) == Reverse(StableSort(s))

\* list.sort with reverse=True: the list is reversed, sorted, and reversed
\* again, which keeps elements of equal key in their original order
ReverseSort(s) == Reverse(StableSort(Reverse(s)))

\* sorted(data, key=..., reverse=...): every key is computed first, in order;
\* then the keys are compared, and a float cannot be compared with a str
sorted(data_, column, reverse) ==
    LET keys  == [k \in 1..Len(data_) |-> SortKey(data_[k], column)]
        exc   == FirstExc([k \in 1..Len(data_) |-> keys[k].exc])
        mixed == \E h, k \in 1..Len(data_) : keys[h].isnum # keys[k].isnum
        pairs == [k \in 1..Len(data_) |-> [key |-> keys[k], row |-> data_[k]]]
        done  == IF reverse THEN ReverseSort(pairs) ELSE StableSort(pairs)
    IN  IF exc # "none" THEN Raise(exc)
        ELSE IF mixed THEN Raise("TypeError")
        ELSE Return([k \in 1..Len(done) |-> done[k].row])

Asc == <<"a", "s", "c">>
Desc == <<"d", "e", "s", "c">>

\* sort_by taking every direction other than desc for asc
sort_by_DefaultAsc(data_, condition) ==
    LET parts == Split(condition, "=")
    IN  IF Len(parts) # 2
        THEN [exc |-> "ValueError", val |-> <<>>, warned |-> FALSE,
              bound |-> FALSE, column |-> <<>>, order |-> <<>>]
        ELSE LET column == parts[1]
                 order  == parts[2]
                 r == CASE order = Desc -> sorted(data_, column, TRUE)
                        [] OTHER -> sorted(data_, column, FALSE)
             IN  [exc |-> r.exc, val |-> r.val, warned |-> FALSE,
                  bound |-> TRUE, column |-> column, order |-> order]

\* sort_by(data, condition): the outcome, whether the warning was printed, and
\* the locals column and order (bound = they were assigned)
sort_by(data_, condition) ==
    LET parts == Split(condition, "=")
    IN  IF Len(parts) # 2
        THEN [exc |-> "ValueError", val |-> <<>>, warned |-> FALSE,
              bound |-> FALSE, column |-> <<>>, order |-> <<>>]
        ELSE LET column == parts[1]
                 order  == parts[2]
                 r == CASE order = Desc -> sorted(data_, column, TRUE)
                        [] order = Asc -> sorted(data_, column, FALSE)
                        [] OTHER -> Return(data_)
             IN  [exc |-> r.exc, val |-> r.val,
                  warned |-> order \notin {Asc, Desc},
                  bound |-> TRUE, column |-> column, order |-> order]

---------------------------------------------------------------------------
(* aggregate                                                               *)

Avg == <<"a", "v", "g">>
Min == <<"m", "i", "n">>
Max == <<"m", "a", "x">>
Median == <<"m", "e", "d", "i", "a", "n">>
ColumnKey == <<"c", "o", "l", "u", "m", "n">>

\* float(row[column]) for one row of the list comprehension of line 122
AggValue(row, column) ==
    IF column \notin DOMAIN row THEN [exc |-> "KeyError", num |-> float(<<>>)]
    ELSE IF ~float(row[column]).ok
    THEN [exc |-> "ValueError", num |-> float(<<>>)]
    ELSE [exc |-> "none", num |-> float(row[column])]

\* the sum of a sequence of floats, over the common denominator den
RECURSIVE SumOver(_, _)
SumOver(values, den) ==
    IF values = <<>> THEN 0
    ELSE (values[1].num * (den \div values[1].den)) + SumOver(Tail(values), den)

\* a power of ten that every denominator of values divides
RECURSIVE CommonDen(_)
CommonDen(values) ==
    IF values = <<>> THEN 1
    ELSE LET d == CommonDen(Tail(values))
         IN  IF values[1].den > d THEN values[1].den ELSE d

\* statistics.mean(values), values not empty
mean(values) ==
    [ok |-> TRUE, num |-> SumOver(values, CommonDen(values)),
     den |-> CommonDen(values) * Len(values)]

\* round2 cutting the digits after the second decimal off
round2_Truncates(x) ==
    [ok |-> TRUE, num |-> (x.num * 100) \div x.den, den |-> 100]

\* round(x, 2): to the nearest hundredth, a tie to the even one
round2(x) ==
    LET n == x.num * 100
        f == n \div x.den
        r == n - (f * x.den)
        q == IF 2 * r < x.den THEN f
             ELSE IF 2 * r > x.den THEN f + 1
             ELSE IF f % 2 = 0 THEN f ELSE f + 1
    IN  [ok |-> TRUE, num |-> q, den |-> 100]

\* min(values): the first least one
min(values) ==
    values[CHOOSE k \in 1..Len(values) :
               /\ \A h \in 1..Len(values) : ~NumLess(values[h], values[k])
               /\ \A h \in 1..(k - 1) : NumLess(values[k], values[h])]

\* max(values): the first greatest one
max(values) ==
    values[CHOOSE k \in 1..Len(values) :
               /\ \A h \in 1..Len(values) : ~NumLess(values[k], values[h])
               /\ \A h \in 1..(k - 1) : NumLess(values[h], values[k])]

\* x placed into the ascending sequence s of floats
RECURSIVE InsertNum(_, _)
InsertNum(x, s) ==
    IF s = <<>> THEN <<x>>
    ELSE IF NumLess(x, s[1]) THEN <<x>> \o s
    ELSE <<s[1]>> \o InsertNum(x, Tail(s))

RECURSIVE SortNums(_)
SortNums(s) ==
    IF s = <<>> THEN <<>>
    ELSE InsertNum(s[Len(s)], SortNums(SubSeq(s, 1, Len(s) - 1)))

\* statistics.median(values), values not empty: the middle one of the sorted
\* values, or (data[i - 1] + data[i]) / 2 for an even count
median(values) ==
    LET srt == SortNums(values)
        n   == Len(srt)
        i   == n \div 2
    IN  IF n % 2 = 1 THEN srt[i + 1]
        ELSE LET d == CommonDen(<<srt[i], srt[i + 1]>>)
             IN  [ok |-> TRUE, num |-> SumOver(<<srt[i], srt[i + 1]>>, d),
                  den |-> 2 * d]

\* the dict of lines 129-135
AggRecord(column, ops, x) == (ColumnKey :> column) @@ (ops :> x)

\* aggregate leaving the rows out whose cell is missing or does not convert
aggregate_SkipsBadRows(data_, column, ops) ==
    LET vals   == [k \in 1..Len(data_) |-> AggValue(data_[k], column)]
        good   == Comprehension(vals,
                      [k \in 1..Len(data_) |-> vals[k].exc = "none"])
        values == [k \in 1..Len(good) |-> good[k].num]
    IN  IF ops \notin {Avg, Min, Max, Median}
        THEN [exc |-> "none", none |-> TRUE, val |-> <<>>, printed |-> "unsupported"]
        ELSE IF Len(good) = 0
        THEN [exc |-> IF ops = Min \/ ops = Max THEN "ValueError"
                      ELSE "StatisticsError",
              none |-> FALSE, val |-> <<>>, printed |-> "none"]
        ELSE [exc |-> "none", none |-> FALSE,
              val |-> AggRecord(column, ops,
                          CASE ops = Avg -> round2(mean(values))
                            [] ops = Min -> min(values)
                            [] ops = Max -> max(values)
                            [] ops = Median -> median(values)),
              printed |-> "none"]

\* aggregate(data, column, ops): None (none = TRUE) after a printed message, a
\* dict, or the exception mean, min, max or median raise on an empty list
aggregate(data_, column, ops) ==
    LET vals   == [k \in 1..Len(data_) |-> AggValue(data_[k], column)]
        exc    == FirstExc([k \in 1..Len(data_) |-> vals[k].exc])
        values == [k \in 1..Len(data_) |-> vals[k].num]
    IN  IF ops \notin {Avg, Min, Max, Median}
        THEN [exc |-> "none", none |-> TRUE, val |-> <<>>, printed |-> "unsupported"]
        ELSE IF exc # "none"
        THEN [exc |-> "none", none |-> TRUE, val |-> <<>>, printed |-> exc]
        ELSE IF Len(data_) = 0
        THEN [exc |-> IF ops = Min \/ ops = Max THEN "ValueError"
                      ELSE "StatisticsError",
              none |-> FALSE, val |-> <<>>, printed |-> "none"]
        ELSE [exc |-> "none", none |-> FALSE,
              val |-> AggRecord(column, ops,
                          CASE ops = Avg -> round2(mean(values))
                            [] ops = Min -> min(values)
                            [] ops = Max -> max(values)
                            [] ops = Median -> median(values)),
              printed |-> "none"]

---------------------------------------------------------------------------
(* Inputs                                                                  *)

MaxRows == 3       \* rows of a dataset handed to a direct call
CliMaxRows == 3    \* rows of the file cli() reads

IdCol == <<"i">>
PCol == <<"p">>
QCol == <<"q">>

\* cells of column p: numbers, equal numbers written differently, a number
\* float() takes and the pattern does not, a string the pattern takes and
\* float() does not, and text
Cells ==
    { <<"2">>, <<"1", "0">>, <<"2", ".", "0">>, <<"1", ".", "2", "5">>,
      <<".", "5">>, <<"1", "a">>, <<"a">> }

\* cells of the file cli() reads
CliCells == { <<"2">>, <<"5">>, <<"1", "0">>, <<"1", "a">> }

IdOf(k) == <<CHOOSE c \in Digits : DigitVal(c) = k>>

\* row k of a dataset: its id, and its cell of column p when it has one
Row(k, c) ==
    IF c.has THEN (IdCol :> IdOf(k)) @@ (PCol :> c.cell)
    ELSE (IdCol :> IdOf(k))

CellChoices(cells) ==
    {[has |-> TRUE, cell |-> c] : c \in cells}
        \cup {[has |-> FALSE, cell |-> <<>>]}

Datasets(cells, maxRows) ==
    UNION { { [k \in 1..n |-> Row(k, cs[k])] :
                cs \in [1..n -> CellChoices(cells)] } : n \in 0..maxRows }

FilterConditions ==
    { <<"p", "<", "2">>, <<"p", ">", "2">>, <<"p", "=", "2">>,
      <<"p", "<", "1", "0">>, <<"p", "=", "2", ".", "0">>,
      <<"p", "<", "a">>, <<"p", ">", "a">>, <<"p", "=", "a">>,
      <<"p", ">", ".", "5">>, <<"p", "<", "1", "a">>, <<"p", "=", "1", "a">>,
      <<"p", "<", "2", "<", "5">>, <<"p", "=", "2", "=", "2">>,
      <<"p", ">", "2", ">">>,
      <<"p", ">", "2", "<", "5">>, <<"p", "=", "2", ">", "1">>,
      <<"p", "<", "2", "=", "2">>, <<"p", ">", "a", "=">>,
      <<"q", "<", "2">>, <<"q", "=", "a">>,
      <<"p">>, <<"p", " ", "2">>, <<>> }

SortConditions ==
    { PCol \o <<"=">> \o Asc, PCol \o <<"=">> \o Desc,
      QCol \o <<"=">> \o Asc, QCol \o <<"=">> \o Desc,
      <<"p", "=", "A", "S", "C">>, <<"p", "=", "d", "e", "s">>,
      <<"p", "=", " ", "a", "s", "c">>, <<"p", "=">>, <<"q", "=", "a">>,
      <<"p">>, <<"p", "=", "a", "s", "c", "=">>, <<"p", "=", "a", "=", "c">> }

AggregateOps ==
    { Avg, Min, Max, Median, <<"s", "u", "m">>, <<"A", "v", "g">>, <<>> }

\* what is called, on some dataset
CallShapes ==
    { [fn |-> "filter_by", condition |-> c, column |-> <<>>, ops |-> <<>>] :
          c \in FilterConditions }
    \cup
    { [fn |-> "sort_by", condition |-> c, column |-> <<>>, ops |-> <<>>] :
          c \in SortConditions }
    \cup
    { [fn |-> "aggregate", condition |-> <<>>, column |-> col, ops |-> o] :
          col \in {PCol, QCol}, o \in AggregateOps }

CallDatasets == Datasets(Cells, MaxRows)

\* an option of the command line: absent (None) or a string
None == [given |-> FALSE, s |-> <<>>]
Opt(s) == [given |-> TRUE, s |-> s]
\* `if args.x:` -- None and the empty string are both false
Truthy(o) == o.given /\ o.s # <<>>

WhereOptions ==
    { None, Opt(<<"p", "<", "1", "0">>), Opt(<<"p">>),
      Opt(<<"p", "<", "2", "<", "5">>) }
OrderByOptions ==
    { None, Opt(PCol \o <<"=">> \o Asc), Opt(PCol \o <<"=">> \o Desc),
      Opt(<<"p", "=", "u", "p">>) }
AggregateOptions ==
    { None, Opt(<<"p", " ", "=", " ">> \o Avg),
      Opt(<<"p", "=", "s", "u", "m">>), Opt(<<"p">>) }
HeadOptions == { None, Opt(<<"1">>), Opt(<<"-", "1">>), Opt(<<"x">>) }

CliDatasets ==
    UNION { { [k \in 1..n |-> Row(k, [has |-> TRUE, cell |-> cs[k]])] :
                cs \in [1..n -> CliCells] } : n \in 0..CliMaxRows }

Files ==
    { [readable |-> TRUE, rows |-> d] : d \in CliDatasets }
        \cup {[readable |-> FALSE, rows |-> <<>>]}

NoCall ==
    [fn |-> "none", data |-> <<>>, condition |-> <<>>, column |-> <<>>,
     ops |-> <<>>]
NoArgs == [where |-> None, order_by |-> None, aggregate |-> None, head |-> None]
NoFile == [readable |-> FALSE, rows |-> <<>>]
NoData == [none |-> TRUE, rows |-> <<>>]
NoLocals == [bound |-> FALSE]

---------------------------------------------------------------------------
(* Direct calls of filter_by, sort_by and aggregate, as the tests make them *)

InitCalls ==
    /\ \E d \in CallDatasets, c \in CallShapes :
           call = [fn |-> c.fn, data |-> d, condition |-> c.condition,
                   column |-> c.column, ops |-> c.ops]
    /\ pc = "call"
    /\ file = NoFile
    /\ args = NoArgs
    /\ data = NoData
    /\ result = <<>>
    /\ ret = [exc |-> "none", none |-> TRUE, val |-> <<>>, warned |-> FALSE]
    /\ locals = NoLocals
    /\ stages = <<>>
    /\ out = <<>>

CallFilterBy ==
    /\ pc = "call"
    /\ call.fn = "filter_by"
    /\ LET r == filter_by(call.data, call.condition)
       IN  /\ ret' = [exc |-> r.exc, none |-> FALSE, val |-> r.val,
                      warned |-> r.warned]
           /\ locals' = [bound |-> r.bound, op |-> r.op, column |-> r.column,
                         value |-> r.value]
    /\ pc' = "returned"
    /\ UNCHANGED <<file, args, call, data, result, stages, out>>

CallSortBy ==
    /\ pc = "call"
    /\ call.fn = "sort_by"
    /\ LET r == sort_by(call.data, call.condition)
       IN  /\ ret' = [exc |-> r.exc, none |-> FALSE, val |-> r.val,
                      warned |-> r.warned]
           /\ locals' = [bound |-> r.bound, column |-> r.column,
                         order |-> r.order]
    /\ pc' = "returned"
    /\ UNCHANGED <<file, args, call, data, result, stages, out>>

CallAggregate ==
    /\ pc = "call"
    /\ call.fn = "aggregate"
    /\ LET r == aggregate(call.data, call.column, call.ops)
       IN  ret' = [exc |-> r.exc, none |-> r.none, val |-> r.val,
                   warned |-> r.printed # "none"]
    /\ pc' = "returned"
    /\ UNCHANGED <<file, args, call, data, result, locals, stages, out>>

NextCalls == CallFilterBy \/ CallSortBy \/ CallAggregate

SpecCalls == InitCalls /\ [][NextCalls]_vars

---------------------------------------------------------------------------
(* cli(): one run of the pipeline, a step per stage                        *)

\* csv_reader(file_path): the rows, or None after a printed message
csv_reader(f) ==
    IF f.readable THEN [none |-> FALSE, rows |-> f.rows] ELSE NoData

\* what print() wrote: its kind and, for a table, the rows tabulate was given
Printed(kind, payload) == [kind |-> kind, payload |-> payload]

\* a stage that ran, and whether it completed without an error
Stage(name, ok) == [name |-> name, ok |-> ok]

\* s[:n]
SliceTo(s, n) ==
    IF n >= 0 THEN SubSeq(s, 1, IF n < Len(s) THEN n ELSE Len(s))
    ELSE SubSeq(s, 1, IF Len(s) + n > 0 THEN Len(s) + n ELSE 0)

Init ==
    /\ file \in Files
    /\ args \in [where : WhereOptions, order_by : OrderByOptions,
                 aggregate : AggregateOptions, head : HeadOptions]
    /\ call = NoCall
    /\ pc = "read"
    /\ data = NoData
    /\ result = <<>>
    /\ ret = [exc |-> "none", none |-> TRUE, val |-> <<>>, warned |-> FALSE]
    /\ locals = NoLocals
    /\ stages = <<>>
    /\ out = <<>>

\* lines 190-195
ReadStage ==
    /\ pc = "read"
    /\ data' = csv_reader(file)
    /\ stages' = Append(stages, Stage("read", TRUE))
    /\ IF data'.none \/ data'.rows = <<>>
       THEN /\ out' = (IF data'.none
                       THEN Append(out, Printed("error", "read")) ELSE out)
                          \o <<Printed("nodata", "read")>>
            /\ pc' = "done"
            /\ UNCHANGED result
       ELSE /\ result' = data'.rows
            /\ pc' = "where"
            /\ UNCHANGED out
    /\ UNCHANGED <<file, args, call, ret, locals>>

\* FilterStage without the return of line 202: the error is printed and the
\* run goes on with the unfiltered rows
FilterStageContinues ==
    /\ pc = "where"
    /\ IF Truthy(args.where)
       THEN LET r == filter_by(result, args.where.s)
            IN  IF r.exc # "none"
                THEN /\ out' = Append(out, Printed("error", "filter"))
                     /\ stages' = Append(stages, Stage("filter", FALSE))
                     /\ pc' = "order_by"
                     /\ UNCHANGED result
                ELSE /\ result' = r.val
                     /\ out' = IF r.warned
                               THEN Append(out, Printed("warning", "filter"))
                               ELSE out
                     /\ stages' = Append(stages, Stage("filter", TRUE))
                     /\ pc' = "order_by"
       ELSE /\ pc' = "order_by"
            /\ UNCHANGED <<result, out, stages>>
    /\ UNCHANGED <<file, args, call, data, ret, locals>>

\* lines 197-202
FilterStage ==
    /\ pc = "where"
    /\ IF Truthy(args.where)
       THEN LET r == filter_by(result, args.where.s)
            IN  IF r.exc # "none"
                THEN /\ out' = Append(out, Printed("error", "filter"))
                     /\ stages' = Append(stages, Stage("filter", FALSE))
                     /\ pc' = "done"
                     /\ UNCHANGED result
                ELSE /\ result' = r.val
                     /\ out' = IF r.warned
                               THEN Append(out, Printed("warning", "filter"))
                               ELSE out
                     /\ stages' = Append(stages, Stage("filter", TRUE))
                     /\ pc' = "order_by"
       ELSE /\ pc' = "order_by"
            /\ UNCHANGED <<result, out, stages>>
    /\ UNCHANGED <<file, args, call, data, ret, locals>>

\* lines 204-209
SortStage ==
    /\ pc = "order_by"
    /\ IF Truthy(args.order_by)
       THEN LET r == sort_by(result, args.order_by.s)
            IN  IF r.exc # "none"
                THEN /\ out' = Append(out, Printed("error", "sort"))
                     /\ stages' = Append(stages, Stage("sort", FALSE))
                     /\ pc' = "done"
                     /\ UNCHANGED result
                ELSE /\ result' = r.val
                     /\ out' = IF r.warned
                               THEN Append(out, Printed("warning", "sort"))
                               ELSE out
                     /\ stages' = Append(stages, Stage("sort", TRUE))
                     /\ pc' = "aggregate"
       ELSE /\ pc' = "aggregate"
            /\ UNCHANGED <<result, out, stages>>
    /\ UNCHANGED <<file, args, call, data, ret, locals>>

\* AggregateStage with the return of line 217 inside `if agg_result:`: after
\* an aggregate that returned None the run goes on to the row-limit
AggregateStageFallsThrough ==
    /\ pc = "aggregate"
    /\ IF Truthy(args.aggregate)
       THEN LET parts == Split(args.aggregate.s, "=")
                r == aggregate(result, Strip(parts[1]), Strip(parts[2]))
            IN  IF Len(parts) # 2 \/ r.exc # "none"
                THEN /\ out' = Append(out, Printed("error", "aggregate"))
                     /\ stages' = Append(stages, Stage("aggregate", FALSE))
                     /\ pc' = "done"
                ELSE IF r.none
                THEN /\ out' = Append(out, Printed("error", r.printed))
                     /\ stages' = Append(stages, Stage("aggregate", FALSE))
                     /\ pc' = "head"
                ELSE /\ out' = Append(out, Printed("aggregate", <<r.val>>))
                     /\ stages' = Append(stages, Stage("aggregate", TRUE))
                     /\ pc' = "done"
       ELSE /\ pc' = "head"
            /\ UNCHANGED <<out, stages>>
    /\ UNCHANGED <<file, args, call, data, result, ret, locals>>

\* lines 211-220: the aggregate option ends the run on every path
AggregateStage ==
    /\ pc = "aggregate"
    /\ IF Truthy(args.aggregate)
       THEN LET parts == Split(args.aggregate.s, "=")
                r == aggregate(result, Strip(parts[1]), Strip(parts[2]))
            IN  /\ pc' = "done"
                /\ IF Len(parts) # 2 \/ r.exc # "none"
                   THEN \* the except clause of line 218
                        /\ out' = Append(out, Printed("error", "aggregate"))
                        /\ stages' = Append(stages, Stage("aggregate", FALSE))
                   ELSE IF r.none
                   THEN \* aggregate printed why and returned None
                        /\ out' = Append(out, Printed("error", r.printed))
                        /\ stages' = Append(stages, Stage("aggregate", FALSE))
                   ELSE /\ out' = Append(out, Printed("aggregate", <<r.val>>))
                        /\ stages' = Append(stages, Stage("aggregate", TRUE))
       ELSE /\ pc' = "head"
            /\ UNCHANGED <<out, stages>>
    /\ UNCHANGED <<file, args, call, data, result, ret, locals>>

\* lines 223-228
HeadStage ==
    /\ pc = "head"
    /\ IF Truthy(args.head)
       THEN IF ~int(args.head.s).ok
            THEN /\ out' = Append(out, Printed("error", "head"))
                 /\ stages' = Append(stages, Stage("head", FALSE))
                 /\ pc' = "done"
                 /\ UNCHANGED result
            ELSE /\ result' = SliceTo(result, int(args.head.s).val)
                 /\ stages' = Append(stages, Stage("head", TRUE))
                 /\ pc' = "render"
                 /\ UNCHANGED out
       ELSE /\ pc' = "render"
            /\ UNCHANGED <<result, out, stages>>
    /\ UNCHANGED <<file, args, call, data, ret, locals>>

\* lines 231-234
RenderStage ==
    /\ pc = "render"
    /\ out' = IF result # <<>>
              THEN Append(out, Printed("table", result))
              ELSE Append(out, Printed("empty", "render"))
    /\ stages' = Append(stages, Stage("render", TRUE))
    /\ pc' = "done"
    /\ UNCHANGED <<file, args, call, data, result, ret, locals>>

Next ==
    \/ ReadStage
    \/ FilterStage
    \/ SortStage
    \/ AggregateStage
    \/ HeadStage
    \/ RenderStage

Spec == Init /\ [][Next]_vars

---------------------------------------------------------------------------
(* Vocabulary of the properties                                            *)

\* the operator a condition is read with: "<" before ">" before "="
WinningOp(c) ==
    IF Contains(c, "<") THEN "<"
    ELSE IF Contains(c, ">") THEN ">"
    ELSE IF Contains(c, "=") THEN "=" ELSE "none"

FirstAt(c, ch) ==
    CHOOSE k \in 1..Len(c) : c[k] = ch /\ \A h \in 1..(k - 1) : c[h] # ch
\* the text before and after the first occurrence of ch
Before(c, ch) == SubSeq(c, 1, FirstAt(c, ch) - 1)
After(c, ch) == SubSeq(c, FirstAt(c, ch) + 1, Len(c))

AllHave(d, col) == \A k \in 1..Len(d) : col \in DOMAIN d[k]
AllConvert(d, col) == \A k \in 1..Len(d) : float(d[k][col]).ok

\* the position a row had in the input: rows carry it as their id
PosOf(row) == DigitVal(row[IdCol][1])

\* r holds exactly the rows of d at the positions K, in input order
RowsAt(r, d, K) ==
    /\ Len(r) = Cardinality(K)
    /\ \A j \in 1..Len(r) :
           \E k \in K : Cardinality({h \in K : h < k}) = j - 1 /\ r[j] = d[k]

FilterReturned == pc = "returned" /\ call.fn = "filter_by"
SortReturned == pc = "returned" /\ call.fn = "sort_by"
AggregateReturned == pc = "returned" /\ call.fn = "aggregate"

\* a condition `column OP operand` whose operator occurs once, on a dataset
\* whose rows all have the column
FilterCase ==
    /\ FilterReturned
    /\ WinningOp(call.condition) # "none"
    /\ Count(call.condition, WinningOp(call.condition)) = 1
    /\ AllHave(call.data, Before(call.condition, WinningOp(call.condition)))

\* the comparison a condition asks for, on numbers and on raw strings
HoldsNumerically(op, a, b) ==
    \/ op = "<" /\ NumLess(a, b)
    \/ op = ">" /\ NumLess(b, a)
    \/ op = "=" /\ NumEq(a, b)
HoldsOnStrings(op, a, b) ==
    \/ op = "<" /\ StrLess(a, b)
    \/ op = ">" /\ StrLess(b, a)
    \/ op = "=" /\ a = b

\* the positions of the rows of d that satisfy the comparison
NumericRows(d, col, op, operand) ==
    {k \in 1..Len(d) : HoldsNumerically(op, float(d[k][col]), float(operand))}
StringRows(d, col, op, operand) ==
    {k \in 1..Len(d) : HoldsOnStrings(op, d[k][col], operand)}

---------------------------------------------------------------------------
(* C3: filter_by returns exactly the rows that satisfy the comparison      *)

\* C3 as stated: on a dataset whose rows all have the column, with the
\* operator occurring once, filter_by returns exactly the satisfying rows in
\* input order: numerically when the operand is numeric-looking and every
\* cell converts, lexicographically when the operand is not numeric-looking.
C3_AsStated ==
    FilterCase =>
        LET op      == WinningOp(call.condition)
            col     == Before(call.condition, op)
            operand == After(call.condition, op)
        IN  /\ (NumericLooking(operand) /\ AllConvert(call.data, col)) =>
                   /\ ret.exc = "none"
                   /\ RowsAt(ret.val, call.data,
                             NumericRows(call.data, col, op, operand))
            /\ ~NumericLooking(operand) =>
                   /\ ret.exc = "none"
                   /\ RowsAt(ret.val, call.data,
                             StringRows(call.data, col, op, operand))

\* C3 amended: the same, the numeric case holding when the operand converts
\* as well (a numeric-looking operand such as 1a does not, and float(value)
\* then raises on the first row).
C3_FilterSelects ==
    FilterCase =>
        LET op      == WinningOp(call.condition)
            col     == Before(call.condition, op)
            operand == After(call.condition, op)
        IN  /\ (/\ NumericLooking(operand)
                /\ float(operand).ok
                /\ AllConvert(call.data, col)) =>
                   /\ ret.exc = "none"
                   /\ RowsAt(ret.val, call.data,
                             NumericRows(call.data, col, op, operand))
            /\ ~NumericLooking(operand) =>
                   /\ ret.exc = "none"
                   /\ RowsAt(ret.val, call.data,
                             StringRows(call.data, col, op, operand))

\* a numeric filter that kept some rows of three and dropped others, where the
\* numeric and the string order disagree (10 against 2)
C3_Witness ==
    /\ FilterCase
    /\ call.condition = <<"p", "<", "1", "0">>
    /\ Len(call.data) = 3
    /\ AllConvert(call.data, PCol)
    /\ call.data[1][PCol] = <<"1", "0">>
    /\ Len(ret.val) = 2

---------------------------------------------------------------------------
(* C4: how the condition is parsed                                         *)

---------------------------------------------------------------------------
(* C5: warn and no-op                                                      *)

\* C5: filter_by with a condition holding none of "<", ">", "=", and sort_by
\* with a spec column=direction whose direction is neither asc nor desc,
\* return the rows of the input in the same order and raise nothing, for
\* every dataset.
C5_WarnAndNoOp ==
    /\ (FilterReturned /\ WinningOp(call.condition) = "none") =>
           /\ ret.exc = "none"
           /\ ret.val = call.data
           /\ ret.warned
    /\ (/\ SortReturned
        /\ Count(call.condition, "=") = 1
        /\ After(call.condition, "=") \notin {Asc, Desc}) =>
           /\ ret.exc = "none"
           /\ ret.val = call.data
           /\ ret.warned

\* sort_by with direction ASC on an unsorted dataset with a row lacking the
\* column
C5_Witness ==
    /\ SortReturned
    /\ call.condition = <<"p", "=", "A", "S", "C">>
    /\ Len(call.data) = 3
    /\ DOMAIN call.data[2] = {IdCol}
    /\ AllHave(<<call.data[1], call.data[3]>>, PCol)
    /\ call.data[1][PCol] = <<"2">>
    /\ call.data[3][PCol] = <<"1", "0">>
    /\ ret.val = call.data

---------------------------------------------------------------------------
(* C6, C7: sort_by                                                         *)

\* the key sort_by orders row by
KeyOf(row, col) == SortKey(row, col)
SameKey(a, b) == ~KeyLess(a, b) /\ ~KeyLess(b, a)

\* a spec `column=asc` or `column=desc` on a dataset whose rows all have
\* the column
SortCase ==
    /\ SortReturned
    /\ Count(call.condition, "=") = 1
    /\ After(call.condition, "=") \in {Asc, Desc}
    /\ AllHave(call.data, Before(call.condition, "="))

AllNumericLooking(d, col) ==
    \A k \in 1..Len(d) : NumericLooking(d[k][col]) /\ float(d[k][col]).ok
NoneNumericLooking(d, col) ==
    \A k \in 1..Len(d) : ~NumericLooking(d[k][col])

\* r is a permutation of d (rows differ by their ids)
IsPermutation(r, d) ==
    /\ Len(r) = Len(d)
    /\ {r[k] : k \in 1..Len(r)} = {d[k] : k \in 1..Len(d)}

\* the rows of the input are where the caller put them
InputIntact == \A k \in 1..Len(call.data) : PosOf(call.data[k]) = k

\* what C6 promises of a sort that falls under it
SortedAsPromised ==
    LET col == Before(call.condition, "=")
        asc == After(call.condition, "=") = Asc
        r   == ret.val
    IN  /\ ret.exc = "none"
        /\ IsPermutation(r, call.data)
        /\ \A j, k \in 1..Len(r) :
               j < k =>
                   IF asc
                   THEN /\ ~KeyLess(KeyOf(r[k], col), KeyOf(r[j], col))
                        /\ SameKey(KeyOf(r[j], col), KeyOf(r[k], col)) =>
                               PosOf(r[j]) < PosOf(r[k])
                   ELSE ~KeyLess(KeyOf(r[j], col), KeyOf(r[k], col))
        /\ InputIntact

\* C6 as stated: when the cells of the column are all numeric or all
\* non-numeric-looking text, asc returns a permutation with non-decreasing
\* keys, rows of equal key in input order, desc one with non-increasing
\* keys, and the input is left unchanged.
C6_AsStated ==
    (/\ SortCase
     /\ \/ AllConvert(call.data, Before(call.condition, "="))
        \/ NoneNumericLooking(call.data, Before(call.condition, "=")))
        => SortedAsPromised

\* C6 amended: the same, for cells that all match the numeric pattern and
\* convert, or that all fail to match it (a number such as .5 does not match
\* and sorts as text, and cannot be compared with one that does).
C6_SortOrders ==
    (/\ SortCase
     /\ \/ AllNumericLooking(call.data, Before(call.condition, "="))
        \/ NoneNumericLooking(call.data, Before(call.condition, "=")))
        => SortedAsPromised

\* an ascending sort of three numbers that moved rows and kept two rows of
\* equal key (2 and 2.0) in input order
C6_Witness ==
    /\ SortCase
    /\ call.condition = PCol \o <<"=">> \o Asc
    /\ Len(call.data) = 3
    /\ call.data[1][PCol] = <<"1", "0">>
    /\ call.data[2][PCol] = <<"2", ".", "0">>
    /\ call.data[3][PCol] = <<"2">>
    /\ ret.exc = "none"
    /\ ret.val = <<call.data[2], call.data[3], call.data[1]>>

\* sort_by(data, column=asc), for comparison with a descending sort
AscendingOf(d, col) == sort_by(d, col \o <<"=">> \o Asc)

DescCase ==
    /\ SortReturned
    /\ Count(call.condition, "=") = 1
    /\ After(call.condition, "=") = Desc

\* C7 as stated: the result of column=desc is the exact reverse of the
\* result of column=asc on the same input, so rows of equal key come out in
\* the reverse of their input order.
C7_AsStated ==
    (DescCase /\ ret.exc = "none") =>
        ret.val = Reverse(AscendingOf(call.data,
                                      Before(call.condition, "=")).val)

\* C7 amended: column=desc fails exactly when column=asc fails; otherwise its
\* keys are those of the ascending result in reverse, rows of equal key stay
\* in their input order (sorted(reverse=True) is stable), and the result is
\* the exact reverse of the ascending one when no two rows have equal keys.
C7_DescendingStable ==
    DescCase =>
        LET col == Before(call.condition, "=")
            a   == AscendingOf(call.data, col)
            r   == ret.val
            n   == Len(r)
        IN  /\ ret.exc = a.exc
            /\ ret.exc = "none" =>
                   /\ IsPermutation(r, call.data)
                   /\ \A k \in 1..n :
                          SameKey(KeyOf(r[k], col),
                                  KeyOf(a.val[n + 1 - k], col))
                   /\ \A j, k \in 1..n :
                          (j < k /\ SameKey(KeyOf(r[j], col), KeyOf(r[k], col)))
                              => PosOf(r[j]) < PosOf(r[k])
                   /\ (\A j, k \in 1..n :
                           j # k => ~SameKey(KeyOf(r[j], col), KeyOf(r[k], col)))
                          => r = Reverse(a.val)

\* a descending sort that moved a row and kept two rows of equal key in
\* input order
C7_Witness ==
    /\ DescCase
    /\ Len(call.data) = 3
    /\ AllHave(call.data, PCol)
    /\ call.data[1][PCol] = <<"2">>
    /\ call.data[2][PCol] = <<"2", ".", "0">>
    /\ call.data[3][PCol] = <<"1", "0">>
    /\ ret.exc = "none"
    /\ ret.val = <<call.data[3], call.data[1], call.data[2]>>

---------------------------------------------------------------------------
(* C8, C9: aggregate                                                       *)

ValidOps == {Avg, Min, Max, Median}

\* C8: aggregate returns None when the op is not avg, min, max or median
\* (whatever the column), when a row lacks the column, or when one cell is
\* not a whole valid number; it returns no statistic of the other rows.
C8_AllOrNothing ==
    AggregateReturned =>
        /\ call.ops \notin ValidOps => (ret.exc = "none" /\ ret.none)
        /\ ~AllHave(call.data, call.column) => (ret.exc = "none" /\ ret.none)
        /\ (AllHave(call.data, call.column)
              /\ ~AllConvert(call.data, call.column)) =>
               (ret.exc = "none" /\ ret.none)

\* a supported op on three rows of which exactly one does not convert
C8_Witness ==
    /\ AggregateReturned
    /\ call.ops = Max
    /\ call.column = PCol
    /\ Len(call.data) = 3
    /\ AllHave(call.data, PCol)
    /\ float(call.data[1][PCol]).ok
    /\ ~float(call.data[2][PCol]).ok
    /\ float(call.data[3][PCol]).ok
    /\ ret.none

\* the converted cells of the column
ValuesOf(d, col) == [k \in 1..Len(d) |-> float(d[k][col])]

\* the r-th smallest of the values v
OrderStatistic(v, r) ==
    v[CHOOSE k \in 1..Len(v) :
          /\ Cardinality({h \in 1..Len(v) : NumLess(v[h], v[k])}) <= r - 1
          /\ Cardinality({h \in 1..Len(v) : ~NumLess(v[k], v[h])}) >= r]

\* 2 * x = a + b
IsHalfSum(x, a, b) ==
    2 * x.num * a.den * b.den = ((a.num * b.den) + (b.num * a.den)) * x.den

\* x is a multiple of 0.01 within 0.005 of m
IsRounded2(x, m) ==
    LET diff == (x.num * m.den) - (m.num * x.den)
    IN  /\ (x.num * 100) % x.den = 0
        /\ 200 * (IF diff < 0 THEN 0 - diff ELSE diff) <= x.den * m.den

\* x is the sum of the values v divided by their count
IsMean(x, v) ==
    LET d == Pow10(2)
    IN  x.num * d = SumOver(v, d) * x.den
\* the same, as a rational to round
MeanOf(v) == [num |-> SumOver(v, Pow10(2)), den |-> Pow10(2) * Len(v)]

\* C9: on a non-empty dataset whose cells of the column all convert, with op
\* avg, min, max or median, aggregate returns a record of exactly two
\* fields, column and the op's name: the least value, the greatest, the
\* middle one (or the mean of the two middle ones), or the mean rounded to
\* 2 decimal places.
C9_Statistic ==
    (/\ AggregateReturned
     /\ call.ops \in ValidOps
     /\ Len(call.data) > 0
     /\ AllHave(call.data, call.column)
     /\ AllConvert(call.data, call.column)) =>
        LET v == ValuesOf(call.data, call.column)
            n == Len(v)
            x == ret.val[call.ops]
        IN  /\ ret.exc = "none"
            /\ ~ret.none
            /\ DOMAIN ret.val = {ColumnKey, call.ops}
            /\ ret.val[ColumnKey] = call.column
            /\ call.ops = Min =>
                   /\ \E k \in 1..n : NumEq(x, v[k])
                   /\ \A k \in 1..n : ~NumLess(v[k], x)
            /\ call.ops = Max =>
                   /\ \E k \in 1..n : NumEq(x, v[k])
                   /\ \A k \in 1..n : ~NumLess(x, v[k])
            /\ call.ops = Median =>
                   IF n % 2 = 1
                   THEN NumEq(x, OrderStatistic(v, (n + 1) \div 2))
                   ELSE IsHalfSum(x, OrderStatistic(v, n \div 2),
                                  OrderStatistic(v, (n \div 2) + 1))
            /\ call.ops = Avg => IsRounded2(x, MeanOf(v))

\* an average that had to be rounded: (1.25 + 2 + 10) / 3 = 4.41666...
C9_Witness ==
    /\ AggregateReturned
    /\ call.ops = Avg
    /\ call.column = PCol
    /\ Len(call.data) = 3
    /\ AllHave(call.data, PCol)
    /\ call.data[1][PCol] = <<"1", ".", "2", "5">>
    /\ call.data[2][PCol] = <<"2">>
    /\ call.data[3][PCol] = <<"1", "0">>
    /\ ~ret.none
    /\ ret.val[Avg].num = 442
    /\ ret.val[Avg].den = 100

---------------------------------------------------------------------------
(* C10: which side decides between the numeric and the string comparison   *)

\* every string among the cells and the operand that matches the numeric
\* pattern converts
LookingConverts(d, col, operand) ==
    /\ NumericLooking(operand) => float(operand).ok
    /\ \A k \in 1..Len(d) : NumericLooking(d[k][col]) => float(d[k][col]).ok

\* C10 as stated: a row is compared numerically only when its cell and the
\* operand both match the numeric pattern; in every other case the raw
\* strings are compared and the filter completes with a dataset.
C10_AsStated ==
    LET op      == WinningOp(call.condition)
        col     == Before(call.condition, op)
        operand == After(call.condition, op)
    IN  (FilterCase /\ LookingConverts(call.data, col, operand)) =>
            /\ ret.exc = "none"
            /\ RowsAt(ret.val, call.data,
                   {k \in 1..Len(call.data) :
                       IF /\ NumericLooking(operand)
                          /\ NumericLooking(call.data[k][col])
                       THEN HoldsNumerically(op, float(call.data[k][col]),
                                             float(operand))
                       ELSE HoldsOnStrings(op, call.data[k][col], operand)})

\* C10 amended: the operand alone decides.  When it matches the numeric
\* pattern every cell is converted with float and compared numerically, and
\* a cell or an operand that does not convert makes filter_by raise
\* ValueError once a row is tested; when it does not match, every cell,
\* numeric-looking or not, is compared as a raw string and the filter
\* completes with a dataset.
C10_OperandDecides ==
    LET op      == WinningOp(call.condition)
        col     == Before(call.condition, op)
        operand == After(call.condition, op)
    IN  FilterCase =>
            IF NumericLooking(operand)
            THEN IF AllConvert(call.data, col)
                       /\ (float(operand).ok \/ call.data = <<>>)
                 THEN /\ ret.exc = "none"
                      /\ RowsAt(ret.val, call.data,
                                NumericRows(call.data, col, op, operand))
                 ELSE ret.exc = "ValueError"
            ELSE /\ ret.exc = "none"
                 /\ RowsAt(ret.val, call.data,
                           StringRows(call.data, col, op, operand))

\* a numeric-looking operand against a cell that is text, and a text operand
\* against a numeric-looking cell
C10_Witness ==
    /\ FilterCase
    /\ Len(call.data) = 2
    /\ call.data[1][PCol] = <<"2">>
    /\ call.data[2][PCol] = <<"a">>
    /\ \/ call.condition = <<"p", "<", "1", "0">> /\ ret.exc = "ValueError"
       \/ call.condition = <<"p", ">", ".", "5">> /\ Len(ret.val) = 2

---------------------------------------------------------------------------
(* C1, C2: the pipeline driver                                             *)

Rank(name) ==
    CASE name = "read" -> 1 [] name = "filter" -> 2 [] name = "sort" -> 3
      [] name = "aggregate" -> 4 [] name = "head" -> 5 [] name = "render" -> 6

Ran(name) == \E k \in 1..Len(stages) : stages[k].name = name
PrintedKind(kind) == \E k \in 1..Len(out) : out[k].kind = kind
Rendered == PrintedKind("table") \/ PrintedKind("aggregate")
HasData == ~data.none /\ data.rows # <<>>

\* what the stages compute from the dataset read, stage by stage
AfterFilter ==
    IF Truthy(args.where)
    THEN LET r == filter_by(data.rows, args.where.s)
         IN  [exc |-> r.exc, val |-> r.val]
    ELSE Return(data.rows)
AfterSort ==
    IF Truthy(args.order_by)
    THEN LET r == sort_by(AfterFilter.val, args.order_by.s)
         IN  [exc |-> r.exc, val |-> r.val]
    ELSE Return(AfterFilter.val)
AggregateOf(d) ==
    LET parts == Split(args.aggregate.s, "=")
    IN  IF Len(parts) # 2
        THEN [exc |-> "ValueError", none |-> FALSE, val |-> <<>>,
              printed |-> "none"]
        ELSE aggregate(d, Strip(parts[1]), Strip(parts[2]))
AggregateFails(d) == AggregateOf(d).exc # "none" \/ AggregateOf(d).none

\* the first stage of the run that fails, "none" if none does
FailedStage ==
    IF AfterFilter.exc # "none" THEN "filter"
    ELSE IF AfterSort.exc # "none" THEN "sort"
    ELSE IF Truthy(args.aggregate)
    THEN IF AggregateFails(AfterSort.val) THEN "aggregate" ELSE "none"
    ELSE IF Truthy(args.head) /\ ~int(args.head.s).ok THEN "head"
    ELSE "none"

\* C1: stages run only in the order read, filter, sort, aggregate,
\* row-limit, render, each at most once and only when its option is present;
\* the aggregate stage works on the dataset the filter and sort stages
\* produced; and with the aggregate option present the run ends at the
\* aggregate stage: no row-limit is applied and no table is rendered, whether
\* the aggregate succeeds or fails.
C1_StageOrder ==
    /\ \A j, k \in 1..Len(stages) :
           j < k => Rank(stages[j].name) < Rank(stages[k].name)
    /\ Ran("filter") => Truthy(args.where)
    /\ Ran("sort") => Truthy(args.order_by)
    /\ Ran("aggregate") => Truthy(args.aggregate)
    /\ Ran("head") => Truthy(args.head)
    /\ (pc = "done" /\ HasData /\ FailedStage = "none") =>
           /\ Truthy(args.where) => Ran("filter")
           /\ Truthy(args.order_by) => Ran("sort")
           /\ Truthy(args.aggregate) => Ran("aggregate")
           /\ ~Truthy(args.aggregate) =>
                  (Ran("render") /\ (Truthy(args.head) => Ran("head")))
    /\ Ran("aggregate") =>
           /\ pc = "done"
           /\ stages[Len(stages)].name = "aggregate"
           /\ stages[Len(stages)].ok = ~AggregateFails(AfterSort.val)
           /\ stages[Len(stages)].ok =>
                  out[Len(out)] =
                      Printed("aggregate", <<AggregateOf(AfterSort.val).val>>)
    /\ Truthy(args.aggregate) =>
           /\ ~Ran("head")
           /\ ~Ran("render")
           /\ ~PrintedKind("table")
           /\ ~PrintedKind("empty")

\* a run with all four options in which the filter dropped a row, the sort
\* moved rows, and the aggregate ended the run with its record
C1_Witness ==
    /\ pc = "done"
    /\ [k \in 1..Len(stages) |-> stages[k].name] =
           <<"read", "filter", "sort", "aggregate">>
    /\ stages[4].ok
    /\ Truthy(args.head)
    /\ Len(AfterFilter.val) < Len(data.rows)
    /\ AfterSort.val # AfterFilter.val
    /\ Len(out) = 1
    /\ out[1].kind = "aggregate"

\* C2: when a stage fails with an error no later stage runs, the error is
\* reported, and neither a table nor an aggregate record is rendered; a
\* result is rendered only in a run whose stages all succeeded.
C2_ErrorAborts ==
    /\ \A k \in 1..Len(stages) :
           ~stages[k].ok => (k = Len(stages) /\ pc = "done")
    /\ (pc = "done" /\ HasData) =>
           IF FailedStage # "none"
           THEN /\ stages[Len(stages)] = Stage(FailedStage, FALSE)
                /\ PrintedKind("error")
                /\ ~Rendered
                /\ ~PrintedKind("empty")
           ELSE /\ \A k \in 1..Len(stages) : stages[k].ok
                /\ ~PrintedKind("error")
                /\ Rendered \/ PrintedKind("empty")
    /\ Rendered => \A k \in 1..Len(stages) : stages[k].ok

\* a run whose filter only warned, whose sort then failed, and which had a
\* row-limit still to apply
C2_Witness ==
    /\ pc = "done"
    /\ stages = <<Stage("read", TRUE), Stage("filter", TRUE),
                  Stage("sort", FALSE)>>
    /\ Truthy(args.head)
    /\ ~Truthy(args.aggregate)
    /\ [k \in 1..Len(out) |-> out[k].kind] = <<"warning", "error">>

===========================================================================
